---------------------------- MODULE Spec2Model ----------------------------
(***************************************************************************)
(* Model of ynab_api.py: the YNABAPI client.                               *)
(*                                                                         *)
(* The constructor runs five private methods in sequence; afterwards the   *)
(* caller may use api_get and api_patch.  Everything outside the class     *)
(* (the credentials file, the network, the server) is an input drawn from  *)
(* a small set at the step that consumes it.                               *)
(*                                                                         *)
(* Strings built with str.format or + are kept as the sequence of their    *)
(* pieces, so that what was put into a message or a header stays visible.  *)
(***************************************************************************)
EXTENDS Integers, Sequences, FiniteSets, TLC

\* Every record field of the model, once, in alphabetical order.  TLC orders
\* the fields of a record by the first occurrence of their names, so the
\* records written below in alphabetical order are in TLC's normal form as
\* they are built, whichever worker reads them first.
FieldNames ==
    DOMAIN [ budgeted |-> 0, budgets |-> 0, categories |-> 0, category |-> 0,
             category_groups |-> 0, content |-> 0, data |-> 0, detail |-> 0,
             err |-> 0, error |-> 0, fields |-> 0, headers |-> 0,
             hidden |-> 0, id |-> 0, json |-> 0, k |-> 0,
             kind |-> 0, message |-> 0, msg |-> 0, name |-> 0,
             none |-> 0, response |-> 0, serialized |-> 0, status |-> 0,
             transport |-> 0, type |-> 0, unset |-> 0, url |-> 0,
             user |-> 0, v |-> 0, value |-> 0, verb |-> 0 ]

VARIABLES
    pc,              \* next constructor step, or "ready" / "failed"
    attrs,           \* names of the instance attributes that exist
    headers,         \* self.headers
    budget_id,       \* self.budget_id
    category_groups, \* self.category_groups
    category_ids,    \* self.category_ids
    requests,        \* every network request issued, in order
    calls,           \* number of api_get / api_patch invocations started
    last_response,   \* what the network gave the latest invocation
    outcome,         \* how the latest step or call ended: return or raise
    steps,           \* constructor steps started, in order
    cfile            \* the credentials file as __setup_ynab found it

vars == <<pc, attrs, headers, budget_id, category_groups, category_ids,
          requests, calls, last_response, outcome, steps, cfile>>

---------------------------------------------------------------------------
(* Bounds of the model *)

\* budgets in a GET /budgets response
MaxBudgets == 2
\* category groups in a categories response
MaxGroups == 2
\* categories in a categories response, over all its groups
MaxCats == 3
\* api_get / api_patch calls the caller makes on a ready client
MaxCalls == 2

---------------------------------------------------------------------------
(* Program constants and inputs *)

API_PREFIX == "https://api.youneedabudget.com/v1"

\* the name __init__ passes to __get_ynab_budget_id
BudgetName == "My Budget"

\* the constructor's argument
CredentialsFilename == "~/.ynab/credentials.json"

InitOrder ==
    << "setup_ynab", "get_ynab_budget_id", "get_ynab_budget_categories",
       "remove_hidden_categories", "remove_unused_category_groups" >>

\* a value that stands for an attribute that has not been assigned
Unset == [unset |-> TRUE]

None == [none |-> TRUE]

\* no step or call has ended yet
NoOutcome == [kind |-> "none"]

Returned(v) == [kind |-> "return", value |-> v]

Raised(type, msg) == [kind |-> "raise", msg |-> msg, type |-> type]

---------------------------------------------------------------------------
(* The credentials file: what open() and json.load() can meet *)

StrVal(s) == [type |-> "str", v |-> s]

IntVal == [type |-> "int"]

\* what a field of the credentials object may hold: a string or a number
FieldValues(k) == {StrVal(IF k = "prefix" THEN "Bearer" ELSE "abc"), IntVal}

CredentialFiles ==
    {[err |-> "[Errno 2] No such file or directory", kind |-> "ioerror"],
     [kind |-> "undecodable"],   \* bytes that are not text in the locale's encoding
     [kind |-> "text"],          \* text that is not JSON
     [kind |-> "array"]}         \* JSON, but not an object
    \cup UNION {{[fields |-> f, kind |-> "object"]
                 : f \in {g \in [D -> UNION {FieldValues(k) : k \in D}]
                          : \A k \in D : g[k] \in FieldValues(k)}}
                : D \in SUBSET {"prefix", "key"}}

---------------------------------------------------------------------------
(* The server: HTTP responses *)

Statuses == {200, 304, 404}

NotJson == [json |-> FALSE]

Json(v) == [json |-> TRUE, value |-> v]

ErrorBody ==
    Json([error |-> [detail |-> "Resource not found", id |-> "404", name |-> "not_found"]])

\* error bodies that lack an expected field
PartialErrorBody == Json([error |-> [id |-> "404", name |-> "not_found"]])

NoErrorBody == Json([message |-> "Not Found"])

TransportFailure == [err |-> "Connection refused", transport |-> "fail"]

Delivered(r) == [response |-> r, transport |-> "ok"]

Response(s, c) == [content |-> c, status |-> s]

BudgetNames == {"My Budget", "my budget"}

BudgetAt(i, n) == [id |-> "B" \o ToString(i), name |-> n]

BudgetLists ==
    UNION {{[i \in 1..k |-> BudgetAt(i, f[i])] : f \in [1..k -> BudgetNames]}
           : k \in 0..MaxBudgets}

BudgetsBody(bl) == Json([data |-> [budgets |-> bl]])

CategoryNames == {"Rent", "Food"}

GroupNameAt(i) == IF i = 1 THEN "Internal Master Category" ELSE "Bills"

\* what the server says of one category: its name and its hidden flag
CategoryFacts == CategoryNames \X BOOLEAN

CategoryAt(i, j, p) ==
    [hidden |-> p[2], id |-> "C" \o ToString(i) \o ToString(j), name |-> p[1]]

GroupAt(i, h, cl) ==
    [categories |-> [j \in 1..Len(cl) |-> CategoryAt(i, j, cl[j])],
     hidden |-> h, id |-> "G" \o ToString(i), name |-> GroupNameAt(i)]

RECURSIVE SumTo(_, _)
SumTo(lens, i) == IF i = 0 THEN 0 ELSE lens[i] + SumTo(lens, i - 1)

\* the sizes of at most g groups holding at most c categories together
GroupSizes(g, c) ==
    UNION {{l \in [1..k -> 0..c] : SumTo(l, k) <= c} : k \in 0..g}

\* the group list of sizes l, hidden flags h, and categories cs laid end to end
GroupList(l, h, cs) ==
    [i \in 1..Len(l) |->
        GroupAt(i, h[i], [j \in 1..l[i] |-> cs[SumTo(l, i - 1) + j]])]

CategoriesBody(gl) == Json([data |-> [category_groups |-> gl]])

\* responses that carry no usable data, whatever the endpoint
ErrorResponses ==
    {Response(s, c) : s \in Statuses,
                      c \in {NotJson, ErrorBody, PartialErrorBody, NoErrorBody}}

Networks(responses) == {TransportFailure} \cup {Delivered(r) : r \in responses}

---------------------------------------------------------------------------
(* __setup_ynab *)

\* self.headers as line 39 leaves it
ContentTypeHeaders == "Content-Type" :> <<"application/json">>

\* Lines 41-54.  json.load raises UnicodeDecodeError (a ValueError, not a
\* JSONDecodeError) on bytes it cannot decode; subscripting a JSON array with
\* a string, or adding a number to ' ', raises TypeError.  Neither is caught.
\* prefix + ' ' is evaluated before credentials['key'] is looked up.
LoadCredentials(file) ==
    CASE file.kind = "ioerror" ->
           Raised("YNABAPIError", <<"Unable to open credentials file:\n", file.err>>)
      [] file.kind = "undecodable" ->
           Raised("UnicodeDecodeError", <<"invalid start byte">>)
      [] file.kind = "text" ->
           Raised("YNABAPIError",
                  <<"Unable to parse credentials file ", CredentialsFilename>>)
      [] file.kind = "array" ->
           Raised("TypeError", <<"list indices must be integers or slices, not str">>)
      [] file.kind = "object" ->
           LET f == file.fields
               missing(k) ==
                   Raised("YNABAPIError",
                          <<"Expected key ", "'" \o k \o "'",
                            " not found in credentials file ", CredentialsFilename>>)
           IN  IF "prefix" \notin DOMAIN f THEN missing("prefix")
               ELSE IF f["prefix"].type # "str"
               THEN Raised("TypeError", <<"unsupported operand type(s) for +">>)
               ELSE IF "key" \notin DOMAIN f THEN missing("key")
               ELSE IF f["key"].type # "str"
               THEN Raised("TypeError", <<"can only concatenate str to str">>)
               ELSE Returned(ContentTypeHeaders @@
                             ("Authorization" :> <<f["prefix"].v, " ", f["key"].v>>))

---------------------------------------------------------------------------
(* __check_api_result, api_get, api_patch *)

\* a success test that takes only 2xx for success
OkOnly2xx(status) == 200 <= status /\ status < 300

\* requests.Response.ok: raise_for_status() raises for 400 <= status < 600
Ok(status) == ~(400 <= status /\ status < 600)

\* d[k] on a parsed JSON object
HasKey(d, k) == k \in DOMAIN d

KeyError(k) == Raised("KeyError", <<"'" \o k \o "'">>)

CheckApiResult(result) ==
    IF ~result.content.json
    THEN Raised("JSONDecodeError", <<"Expecting value">>)
    ELSE LET data == result.content.value
         IN  IF ~Ok(result.status)
             THEN IF ~HasKey(data, "error") THEN KeyError("error")
                  ELSE IF ~HasKey(data.error, "name") THEN KeyError("name")
                  ELSE IF ~HasKey(data.error, "detail") THEN KeyError("detail")
                  ELSE Raised("YNABAPIError",
                              <<"Request Error: ", ToString(result.status), " ",
                                data.error.name, ":", data.error.detail>>)
             ELSE Returned(data)

\* json.dumps(data)
JsonDumps(data) == [serialized |-> data]

Request(verb, url, data) ==
    [data |-> data, headers |-> headers, url |-> <<API_PREFIX>> \o url, verb |-> verb]

\* a send that tries once more when the transport fails
SendWithRetry(log, req, net) ==
    IF net.transport = "fail" THEN Append(Append(log, req), req) ELSE Append(log, req)

\* the one requests.get / requests.patch call of an invocation
Send(log, req, net) == Append(log, req)

\* lines 73-78 and 84-89: what the invocation gives its caller
ApiResult(net) ==
    IF net.transport = "fail"
    THEN Raised("YNABAPIError", <<"YNAB API error:\n", net.err>>)
    ELSE CheckApiResult(net.response)

Invoke(verb, url, data, net) ==
    /\ calls' = calls + 1
    /\ requests' = Send(requests, Request(verb, url, data), net)
    /\ last_response' = net

---------------------------------------------------------------------------
(* __get_ynab_budget_id *)

\* a scan that keeps going after a match, so that the last match wins
ScanBudgetsLast(budgets, name, i) ==
    LET M == {k \in i..Len(budgets) : budgets[k].name = name}
    IN  IF M = {}
        THEN Raised("YNABAPIError", <<"Budget '", name, "' not found">>)
        ELSE Returned([id |-> budgets[CHOOSE k \in M : \A m \in M : m <= k].id])

RECURSIVE ScanBudgets(_, _, _)
ScanBudgets(budgets, name, i) ==
    IF i > Len(budgets)
    THEN Raised("YNABAPIError", <<"Budget '", name, "' not found">>)
    ELSE IF budgets[i].name = name
         THEN Returned([id |-> budgets[i].id])
         ELSE ScanBudgets(budgets, name, i + 1)

\* lines 94-103, given what api_get('/budgets') gave
BudgetIdResult(r, name) ==
    IF r.kind = "raise" THEN r
    ELSE IF ~HasKey(r.value, "data") THEN KeyError("data")
    ELSE IF ~HasKey(r.value.data, "budgets") THEN KeyError("budgets")
    ELSE ScanBudgets(r.value.data.budgets, name, 1)

---------------------------------------------------------------------------
(* __get_ynab_budget_categories *)

\* d.setdefault(k, v): the first value stored under a key stays
PutIfAbsent(d, k, v) ==
    [x \in DOMAIN d \cup {k} |-> IF x \in DOMAIN d THEN d[x] ELSE v]

\* d[k] = v on a dict
Put(d, k, v) == [x \in DOMAIN d \cup {k} |-> IF x = k THEN v ELSE d[x]]

RECURSIVE IndexCategories(_, _, _)
IndexCategories(d, cats, j) ==
    IF j > Len(cats) THEN d
    ELSE IndexCategories(Put(d, cats[j].name, cats[j].id), cats, j + 1)

RECURSIVE IndexGroups(_, _, _)
IndexGroups(d, groups, i) ==
    IF i > Len(groups) THEN d
    ELSE IndexGroups(IndexCategories(d, groups[i].categories, 1), groups, i + 1)

\* lines 113-116
CategoryIds(groups) == IndexGroups(<<>>, groups, 1)

\* lines 109-111, given what api_get gave
CategoryGroupsResult(r) ==
    IF r.kind = "raise" THEN r
    ELSE IF ~HasKey(r.value, "data") THEN KeyError("data")
    ELSE IF ~HasKey(r.value.data, "category_groups") THEN KeyError("category_groups")
    ELSE Returned([category_groups |-> r.value.data.category_groups])

---------------------------------------------------------------------------
(* __remove_hidden_categories, __remove_unused_category_groups *)

NotHidden(x) == ~x.hidden

RemoveHidden(groups) ==
    [i \in 1..Len(groups) |->
        [groups[i] EXCEPT !.categories = SelectSeq(@, NotHidden)]]

\* the rule left commented out at line 126
ValidCategoryGroupNamed(group) ==
    Len(group.categories) # 0 /\ group.name # "Internal Master Category"

\* __valid_category_group: len(...) is truthy when it is not 0
ValidCategoryGroup(group) == Len(group.categories) # 0

RemoveUnused(groups) == SelectSeq(groups, ValidCategoryGroup)

---------------------------------------------------------------------------
(* The constructor, one action per method __init__ calls *)

\* the state before __init__ runs: no attribute exists yet
Init ==
    /\ pc = "setup_ynab"
    /\ attrs = {}
    /\ headers = Unset
    /\ budget_id = Unset
    /\ category_groups = Unset
    /\ category_ids = Unset
    /\ requests = <<>>
    /\ calls = 0
    /\ last_response = None
    /\ outcome = NoOutcome
    /\ steps = <<>>
    /\ cfile = None

\* the step __init__ runs after step s
NextStep(s) ==
    CASE s = "setup_ynab" -> "get_ynab_budget_id"
      [] s = "get_ynab_budget_id" -> "get_ynab_budget_categories"
      [] s = "get_ynab_budget_categories" -> "remove_hidden_categories"
      [] s = "remove_hidden_categories" -> "remove_unused_category_groups"
      [] s = "remove_unused_category_groups" -> "ready"

Begin(s) ==
    /\ pc = s
    /\ steps' = Append(steps, s)

\* the method returned: __init__ goes on to its next line
Continue ==
    /\ pc' = NextStep(pc)
    /\ outcome' = Returned(None)

\* a failure that is swallowed: __init__ goes on to its next line
AbortSwallowed(exc) ==
    /\ pc' = NextStep(pc)
    /\ outcome' = exc

\* the method raised: the exception leaves __init__, no object is handed out
Abort(exc) ==
    /\ pc' = "failed"
    /\ outcome' = exc

SetupYnab ==
    /\ Begin("setup_ynab")
    /\ \E file \in CredentialFiles :
          LET r == LoadCredentials(file)
          IN  /\ cfile' = file
              /\ attrs' = attrs \cup {"headers"}
              /\ IF r.kind = "return"
                 THEN headers' = r.value /\ Continue
                 ELSE headers' = ContentTypeHeaders /\ Abort(r)
    /\ UNCHANGED <<budget_id, category_groups, category_ids, requests, calls,
                   last_response>>

GetYnabBudgetId(net) ==
    /\ Begin("get_ynab_budget_id")
    /\    LET r == BudgetIdResult(ApiResult(net), BudgetName)
          IN  /\ Invoke("GET", <<"/budgets">>, None, net)
              /\ IF r.kind = "return"
                 THEN /\ budget_id' = r.value.id
                      /\ attrs' = attrs \cup {"budget_id"}
                      /\ Continue
                 ELSE /\ UNCHANGED <<budget_id, attrs>>
                      /\ Abort(r)
    /\ UNCHANGED <<headers, category_groups, category_ids, cfile>>

GetYnabBudgetCategories(net) ==
    /\ Begin("get_ynab_budget_categories")
    /\    LET r == CategoryGroupsResult(ApiResult(net))
          IN  /\ Invoke("GET", <<"/budgets/", budget_id, "/categories">>, None, net)
              /\ IF r.kind = "return"
                 THEN /\ category_groups' = r.value.category_groups
                      /\ category_ids' = CategoryIds(r.value.category_groups)
                      /\ attrs' = attrs \cup {"category_groups", "category_ids"}
                      /\ Continue
                 ELSE /\ UNCHANGED <<category_groups, category_ids, attrs>>
                      /\ Abort(r)
    /\ UNCHANGED <<headers, budget_id, cfile>>

RemoveHiddenCategories ==
    /\ Begin("remove_hidden_categories")
    /\ category_groups' = RemoveHidden(category_groups)
    /\ Continue
    /\ UNCHANGED <<attrs, headers, budget_id, category_ids, requests, calls,
                   last_response, cfile>>

RemoveUnusedCategoryGroups ==
    /\ Begin("remove_unused_category_groups")
    /\ category_groups' = RemoveUnused(category_groups)
    /\ Continue
    /\ UNCHANGED <<attrs, headers, budget_id, category_ids, requests, calls,
                   last_response, cfile>>

---------------------------------------------------------------------------
(* The caller's use of a constructed client *)

CallerPaths == {<<"/user">>}

\* JSON-serializable payloads, as api_patch's caller is to pass
Payloads == {[category |-> [budgeted |-> "1000"]]}

DataBody == Json([data |-> [user |-> [id |-> "U1"]]])

CallerResponses ==
    ErrorResponses \cup {Response(s, DataBody) : s \in Statuses}

\* __init__ has made two invocations by the time the client is ready
InitCalls == Len(SelectSeq(steps, LAMBDA s : s \in {"get_ynab_budget_id",
                                                   "get_ynab_budget_categories"}))

ApiGet ==
    /\ pc = "ready"
    /\ calls < InitCalls + MaxCalls
    /\ \E url \in CallerPaths, net \in Networks(CallerResponses) :
          /\ Invoke("GET", url, None, net)
          /\ outcome' = ApiResult(net)
    /\ UNCHANGED <<pc, attrs, headers, budget_id, category_groups, category_ids,
                   steps, cfile>>

\* an api_patch that edits the stored headers for its own request
ApiPatchSetsHeader ==
    /\ pc = "ready"
    /\ calls < InitCalls + MaxCalls
    /\ \E url \in CallerPaths, data \in Payloads, net \in Networks(CallerResponses) :
          /\ Invoke("PATCH", url, JsonDumps(data), net)
          /\ outcome' = ApiResult(net)
    /\ headers' = Put(headers, "Content-Type", <<"application/merge-patch+json">>)
    /\ UNCHANGED <<pc, attrs, budget_id, category_groups, category_ids, steps, cfile>>

ApiPatch ==
    /\ pc = "ready"
    /\ calls < InitCalls + MaxCalls
    /\ \E url \in CallerPaths, data \in Payloads, net \in Networks(CallerResponses) :
          /\ Invoke("PATCH", url, JsonDumps(data), net)
          /\ outcome' = ApiResult(net)
    /\ UNCHANGED <<pc, attrs, headers, budget_id, category_groups, category_ids,
                   steps, cfile>>

---------------------------------------------------------------------------
(* Specifications *)

BudgetResponses(statuses) ==
    ErrorResponses \cup
    {Response(s, BudgetsBody(bl)) : s \in statuses, bl \in BudgetLists}

\* __get_ynab_budget_id against a server whose budget lists come with `statuses`
ResolveBudget(statuses) ==
    /\ pc = "get_ynab_budget_id"
    /\ \E net \in Networks(BudgetResponses(statuses)) : GetYnabBudgetId(net)

\* __get_ynab_budget_categories against a server whose category data comes
\* with `statuses`, in at most g groups of at most c categories together
FetchCategories(statuses, g, c) ==
    /\ pc = "get_ynab_budget_categories"
    /\ \/ \E net \in Networks(ErrorResponses) : GetYnabBudgetCategories(net)
       \/ \E s \in statuses, l \in GroupSizes(g, c) :
             \E h \in [1..Len(l) -> BOOLEAN],
                cs \in [1..SumTo(l, Len(l)) -> CategoryFacts] :
                GetYnabBudgetCategories(
                    Delivered(Response(s, CategoriesBody(GroupList(l, h, cs)))))

\* Construction, over every categories response within the bounds.
Next ==
    \/ SetupYnab
    \/ ResolveBudget({200})
    \/ FetchCategories({200}, MaxGroups, MaxCats)
    \/ RemoveHiddenCategories
    \/ RemoveUnusedCategoryGroups

Spec == Init /\ [][Next]_vars

\* Construction and use, the data responses arriving under every status.
NextClient ==
    \/ SetupYnab
    \/ ResolveBudget(Statuses)
    \/ FetchCategories(Statuses, 1, 2)
    \/ RemoveHiddenCategories
    \/ RemoveUnusedCategoryGroups
    \/ ApiGet
    \/ ApiPatch

SpecClient == Init /\ [][NextClient]_vars

---------------------------------------------------------------------------
(* Vocabulary of the properties *)

\* the latest invocation got an HTTP response
Answered == "transport" \in DOMAIN last_response /\ last_response.transport = "ok"

\* the data of the response the latest invocation got
LastData == last_response.response.content.value

\* the group list the categories endpoint returned; construction makes no
\* invocation after the one that fetched it
RawGroups == LastData.data.category_groups

Fetched == pc \in {"remove_hidden_categories", "remove_unused_category_groups", "ready"}

\* how many members of the index set S are at or before i
Rank(S, i) == Cardinality({x \in S : x <= i})

VisibleAt(cats) == {j \in 1..Len(cats) : cats[j].hidden # TRUE}

KeptAt(groups) == {i \in 1..Len(groups) : VisibleAt(groups[i].categories) # {}}

\* the places (group, category) of a group list, in iteration order
Places(groups) ==
    UNION {{<<i, j>> : j \in 1..Len(groups[i].categories)} : i \in 1..Len(groups)}

Later(p, q) == q[1] > p[1] \/ (q[1] = p[1] /\ q[2] > p[2])

NamesIn(groups) == {groups[p[1]].categories[p[2]].name : p \in Places(groups)}

UniqueNames(groups) ==
    \A p \in Places(groups), q \in Places(groups) :
        groups[p[1]].categories[p[2]].name = groups[q[1]].categories[q[2]].name => p = q

---------------------------------------------------------------------------
(* C1 *)

\* C1: once construction has completed, category_groups is the returned group
\* list with the hidden categories taken out of every group and the groups
\* left empty dropped: a group with a visible category is there, with its own
\* id, name and hidden flag and exactly its visible categories in their
\* original order, and no other group is.
C1_CleanedGroups ==
    pc = "ready" =>
        LET K == KeptAt(RawGroups)
        IN  /\ Len(category_groups) = Cardinality(K)
            /\ \A i \in K :
                  LET g == category_groups[Rank(K, i)]
                      V == VisibleAt(RawGroups[i].categories)
                  IN  /\ g.id = RawGroups[i].id
                      /\ g.name = RawGroups[i].name
                      /\ g.hidden = RawGroups[i].hidden
                      /\ Len(g.categories) = Cardinality(V)
                      /\ \A j \in V :
                            g.categories[Rank(V, j)] = RawGroups[i].categories[j]

\* a hidden "Internal Master Category" group is kept with the visible one of
\* its two categories, and a second group, all hidden, is dropped
C1_Witness ==
    /\ pc = "ready"
    /\ Len(RawGroups) = 2
    /\ Len(RawGroups[1].categories) = 2
    /\ Len(RawGroups[2].categories) = 1
    /\ RawGroups[1].hidden
    /\ Len(category_groups) = 1
    /\ category_groups[1].name = "Internal Master Category"
    /\ Len(category_groups[1].categories) = 1

---------------------------------------------------------------------------
(* C2 *)

\* C2: once construction has completed, and the names in the categories
\* response being unique, the keys of category_ids are exactly the names of
\* the categories left in category_groups.
C2_IndexKeysAreVisibleNames ==
    (pc = "ready" /\ UniqueNames(RawGroups)) =>
        DOMAIN category_ids = NamesIn(category_groups)

---------------------------------------------------------------------------
(* C3 *)

RequestingSteps == {"get_ynab_budget_id", "get_ynab_budget_categories"}

StepsThatRequested == {k \in 1..Len(steps) : steps[k] \in RequestingSteps}

C3_State ==
    /\ steps = SubSeq(InitOrder, 1, Len(steps))
    /\ pc = "ready" => steps = InitOrder
    /\ pc \notin {"ready", "failed"} =>
          /\ pc = InitOrder[Len(steps) + 1]
          /\ outcome.kind # "raise"
    /\ pc = "failed" => (Len(steps) >= 1 /\ outcome.kind = "raise")
    /\ pc # "ready" => Len(requests) = Cardinality(StepsThatRequested)

\* C3: construction runs its steps in the one fixed order; a step that fails is
\* the last to run, its exception is what construction ends with, nothing is
\* requested afterwards, and requests other than construction's own are made
\* only on a client that became ready.
C3_FailureStopsConstruction ==
    /\ []C3_State
    /\ [][pc # "failed"]_vars
    /\ [][pc' = "failed" => outcome'.kind = "raise"]_vars

\* the categories step failed after two steps that succeeded
C3_Witness ==
    /\ pc = "failed"
    /\ steps = SubSeq(InitOrder, 1, 3)
    /\ Len(requests) = 2

---------------------------------------------------------------------------
(* C4 *)

\* the budgets of the response to GET /budgets, right after the step that asked
BudgetStepDone == Len(steps) = 2

BudgetsAnswered ==
    /\ BudgetStepDone
    /\ Answered
    /\ last_response.response.content.json
    /\ last_response.response.status = 200
    /\ "data" \in DOMAIN LastData

MatchesAt(budgets) == {i \in 1..Len(budgets) : budgets[i].name = "My Budget"}

\* C4: budget_id becomes the id of the first budget named exactly "My Budget";
\* with no such budget construction fails with "Budget 'My Budget' not found",
\* budget_id is not set and only GET /budgets has been requested.
C4_FirstMatchOrNotFound ==
    BudgetsAnswered =>
        LET budgets == LastData.data.budgets
            M == MatchesAt(budgets)
        IN  IF M # {}
            THEN /\ pc = "get_ynab_budget_categories"
                 /\ "budget_id" \in attrs
                 /\ \E i \in M : /\ \A m \in M : i <= m
                                 /\ budget_id = budgets[i].id
            ELSE /\ pc = "failed"
                 /\ outcome = [kind |-> "raise",
                               msg |-> <<"Budget '", "My Budget", "' not found">>,
                               type |-> "YNABAPIError"]
                 /\ "budget_id" \notin attrs
                 /\ Len(requests) = 1
                 /\ requests[1].url = <<API_PREFIX, "/budgets">>

\* two budgets carry the name and the first one's id is taken
C4_Witness ==
    /\ BudgetsAnswered
    /\ Cardinality(MatchesAt(LastData.data.budgets)) = 2
    /\ budget_id = "B1"

---------------------------------------------------------------------------
(* C5 *)

\* the latest invocation was the caller's, and got a response that parses
CallerAnswered ==
    /\ pc = "ready"
    /\ Len(requests) > 2
    /\ Answered
    /\ last_response.response.content.json

WellFormedError(data) ==
    /\ "error" \in DOMAIN data
    /\ {"name", "detail"} \subseteq DOMAIN data.error

RequestError(status, data) ==
    [kind |-> "raise",
     msg |-> <<"Request Error: ", ToString(status), " ", data.error.name, ":",
               data.error.detail>>,
     type |-> "YNABAPIError"]

\* C5, as claimed: a call whose response parses returns the parsed body when
\* the status is 2xx, and raises "Request Error: <status> <name>:<detail>"
\* when the status is not 2xx and the error body is well formed.
C5_DecidedBy2xx ==
    CallerAnswered =>
        LET status == last_response.response.status
        IN  IF 200 <= status /\ status <= 299
            THEN outcome = [kind |-> "return", value |-> LastData]
            ELSE WellFormedError(LastData) => outcome = RequestError(status, LastData)

\* C5, amended: the dividing line is 400..599, not 2xx.  A call whose response
\* parses returns the parsed body when the status is outside 400..599, and
\* raises "Request Error: <status> <name>:<detail>" when the status is within
\* 400..599 and the error body is well formed.
C5_DecidedByErrorStatus ==
    CallerAnswered =>
        LET status == last_response.response.status
        IN  IF status < 400 \/ status > 599
            THEN outcome = [kind |-> "return", value |-> LastData]
            ELSE WellFormedError(LastData) => outcome = RequestError(status, LastData)

\* a PATCH answered 404 with a well-formed error body has raised
C5_Witness ==
    /\ CallerAnswered
    /\ requests[Len(requests)].verb = "PATCH"
    /\ last_response.response.status = 404
    /\ WellFormedError(LastData)
    /\ outcome.kind = "raise"

---------------------------------------------------------------------------
(* C6 *)

\* C6: every invocation of api_get or api_patch has sent exactly one request,
\* with the stored Authorization header and a JSON Content-Type; one that
\* failed in transport ended with the client error around the transport's
\* message, and was not sent again.
C6_OneRequestPerCall ==
    /\ Len(requests) = calls
    /\ \A k \in 1..Len(requests) :
          /\ requests[k].headers = headers
          /\ "Authorization" \in DOMAIN requests[k].headers
          /\ requests[k].headers["Authorization"] =
                <<cfile.fields["prefix"].v, " ", cfile.fields["key"].v>>
          /\ requests[k].headers["Content-Type"] = <<"application/json">>
    /\ ("transport" \in DOMAIN last_response /\ last_response.transport = "fail") =>
          outcome = [kind |-> "raise",
                     msg |-> <<"YNAB API error:\n", last_response.err>>,
                     type |-> "YNABAPIError"]

\* the caller's second call, a PATCH, failed in transport
C6_Witness ==
    /\ pc = "ready"
    /\ calls = 4
    /\ requests[4].verb = "PATCH"
    /\ last_response.transport = "fail"

---------------------------------------------------------------------------
(* C7 *)

SetupDone == Len(steps) >= 1

ClientError(msg) == [kind |-> "raise", msg |-> msg, type |-> "YNABAPIError"]

FailedInSetup(msg) ==
    /\ pc = "failed"
    /\ steps = <<"setup_ynab">>
    /\ requests = <<>>
    /\ outcome = ClientError(msg)

MissingKey(k) ==
    <<"Expected key ", "'" \o k \o "'", " not found in credentials file ",
      CredentialsFilename>>

HasField(k) == cfile.kind = "object" /\ k \in DOMAIN cfile.fields

\* C7: credential loading fails with the client error, before any request,
\* when the file cannot be read, when its content is not JSON, and when the
\* JSON lacks prefix or key; otherwise Authorization is "<prefix> <key>".
C7_CredentialCases ==
    SetupDone =>
        CASE cfile.kind = "ioerror" ->
               FailedInSetup(<<"Unable to open credentials file:\n", cfile.err>>)
          [] cfile.kind \in {"text", "undecodable"} ->
               FailedInSetup(<<"Unable to parse credentials file ", CredentialsFilename>>)
          [] ~HasField("prefix") -> FailedInSetup(MissingKey("prefix"))
          [] HasField("prefix") /\ ~HasField("key") -> FailedInSetup(MissingKey("key"))
          [] OTHER ->
               /\ "Authorization" \in DOMAIN headers
               /\ \A p \in {"Bearer"}, k \in {"abc"} :
                     (cfile.fields["prefix"] = StrVal(p) /\ cfile.fields["key"] = StrVal(k))
                        => headers["Authorization"] = <<p, " ", k>>

---------------------------------------------------------------------------
(* C8 *)

\* C8: whatever construction, api_get or api_patch raises is a YNABAPIError.
C8_OnlyClientErrors ==
    outcome.kind = "raise" => outcome.type = "YNABAPIError"

---------------------------------------------------------------------------
(* C9 *)

\* C9: the index maps every name of the response, and only those, to one id:
\* that of the last category of that name, groups and categories taken in the
\* order returned.
C9_LastNameWins ==
    Fetched =>
        /\ DOMAIN category_ids = NamesIn(RawGroups)
        /\ \A p \in Places(RawGroups) :
              LET c == RawGroups[p[1]].categories[p[2]]
              IN  (\A q \in Places(RawGroups) :
                      Later(p, q) => RawGroups[q[1]].categories[q[2]].name # c.name)
                  => category_ids[c.name] = c.id

\* one name three times, in two groups: the index holds the third one's id
C9_Witness ==
    /\ pc = "ready"
    /\ Len(RawGroups) = 2
    /\ Len(RawGroups[1].categories) = 2
    /\ Len(RawGroups[2].categories) = 1
    /\ NamesIn(RawGroups) = {"Rent"}
    /\ category_ids["Rent"] = "C21"
    /\ RawGroups[2].categories[1].hidden

---------------------------------------------------------------------------
(* C10 *)

InstanceState == <<attrs, headers, budget_id, category_groups, category_ids>>

C10_State ==
    /\ pc = "ready" =>
          \A i \in 1..Len(category_groups) :
              /\ category_groups[i].categories # <<>>
              /\ \A j \in 1..Len(category_groups[i].categories) :
                    ~category_groups[i].categories[j].hidden
    /\ Len(requests) >= 1 =>
          /\ requests[1].verb = "GET"
          /\ requests[1].url = <<API_PREFIX, "/budgets">>
    /\ Len(requests) >= 2 =>
          /\ requests[2].verb = "GET"
          /\ requests[2].url = <<API_PREFIX, "/budgets/", budget_id, "/categories">>
    /\ pc # "ready" => Len(requests) <= 2

\* C10: no api_get or api_patch on a ready client, however it ends, changes
\* the headers, budget_id, category_groups or category_ids, so a ready client
\* never holds an empty group or a hidden category; and construction requests
\* GET /budgets, then GET /budgets/{budget_id}/categories, and nothing else.
C10_CallsLeaveStateAlone ==
    /\ [][pc = "ready" => UNCHANGED InstanceState]_vars
    /\ []C10_State

\* two calls made on a non-empty client, the second a PATCH that raised
C10_Witness ==
    /\ pc = "ready"
    /\ Len(requests) = 4
    /\ requests[3].verb = "GET"
    /\ requests[4].verb = "PATCH"
    /\ outcome.kind = "raise"
    /\ category_groups # <<>>

===========================================================================
